---- MODULE Spec2Model ----
(***************************************************************************)
(* Model of init/init_ddk.py: KleafProjectSetter.                          *)
(*                                                                         *)
(* Text is a sequence of tokens.  "nl" is the line feed and "cr" the        *)
(* carriage return; "B" and "E" are the texts of the two section markers   *)
(* without their line break; every other token is an ordinary character    *)
(* that occurs in neither marker.                                          *)
(***************************************************************************)
EXTENDS Integers, Sequences, FiniteSets, TLC

VARIABLES
    \* ---- one call (and a repeated call) of _update_file ----
    pc,             \* position inside _update_file
    call,           \* 1: first call, 2: the same call repeated
    path_exists,    \* path.exists()
    path_data,      \* content visible at path
    update,         \* the argument `update`
    input_lines,    \* lines of input_file not yet iterated
    add_content,    \* local flag
    skip_line,      \* local flag
    update_written, \* local flag
    tmp_exists,     \* the NamedTemporaryFile exists on disk
    output_file,    \* what has been written to the temporary file
    pre_exists,     \* history: path.exists() when the current call began
    pre_data,       \* history: content of path when the current call began
    \* ---- one run of the script (run(), and the __main__ block) ----
    run_pc,         \* position inside run() / __main__
    argv,           \* the command line: how each path option is given, and
                    \* whether an option the parser does not know is given
    ddk_workspace,  \* TRUE: the parsed argument is a path, FALSE: it is None
    kleaf_repo,     \* likewise
    prebuilts_dir,  \* likewise
    dirs,           \* the directories that exist: "ddk_workspace",
                    \* "kleaf_repo", "prebuilts_dir", "tools" (the directory
                    \* ddk_workspace/tools)
    download_configs, \* prebuilts_dir/download_configs.json: "absent",
                    \* "valid", "not_json" or "not_utf8"
    module_bazel,   \* ddk_workspace/MODULE.bazel: [exists, data]
    bazelrc,        \* ddk_workspace/device.bazelrc: [exists, data]
    tools_bazel,    \* ddk_workspace/tools/bazel: "absent", "other", "kleaf"
    exception,      \* the exception propagating out of run(), or "none"
    exit_status,    \* the process's exit status, -1 while it runs
    error_logged,   \* logging.error was called
    update_calls,   \* history: the files _update_file was called on
    symlinked,      \* history: symlink_to was called
    run_init,       \* history: the three files before the run
    \* ---- one call of _download ----
    dl_pc,          \* position inside _download
    url_fmt,        \* self.url_fmt: [none, s]
    build_id,       \* self.build_id: [none, s]
    build_target,   \* self.build_target: [none, s]
    remote_filename, \* the argument
    url,            \* the local `url`: [none, s]
    dl_error_logged, \* logging.error was called
    subprocess_started, \* subprocess.check_call was reached
    dl_raised       \* _download ended with an exception

updvars == <<pc, call, path_exists, path_data, update, input_lines,
             add_content, skip_line, update_written, tmp_exists,
             output_file, pre_exists, pre_data>>

runvars == <<run_pc, argv, ddk_workspace, kleaf_repo, prebuilts_dir, dirs,
             download_configs, module_bazel, bazelrc, tools_bazel, exception,
             exit_status, error_logged, update_calls, symlinked, run_init>>

dlvars == <<dl_pc, url_fmt, build_id, build_target, remote_filename, url,
            dl_error_logged, subprocess_started, dl_raised>>

vars == <<updvars, runvars, dlvars>>

----------------------------------------------------------------------------
(* Bounds of the explored inputs. *)

MaxLines == 4

----------------------------------------------------------------------------
(* Text. *)

NL == "nl"

CR == "cr"

FILE_MARKER_BEGIN == <<"B", NL>>

FILE_MARKER_END == <<"E", NL>>

\* Python's `sub in s` on strings.
Contains(sub, s) ==
    \E i \in 0..(Len(s) - Len(sub)) : SubSeq(s, i + 1, i + Len(sub)) = sub

\* Index of the first line break of s ("nl", "cr" or the "cr" of "cr nl"),
\* 0 when there is none.
FirstBreak(s) ==
    IF \E i \in 1..Len(s) : s[i] \in { NL, CR }
    THEN CHOOSE i \in 1..Len(s) :
             /\ s[i] \in { NL, CR }
             /\ \A j \in 1..(i - 1) : s[j] \notin { NL, CR }
    ELSE 0

\* Number of tokens of the line break that starts at index i of s.
BreakLen(s, i) == IF s[i] = CR /\ i < Len(s) /\ s[i + 1] = NL THEN 2 ELSE 1

\* `for line in input_file`, the file opened in text mode with universal
\* newlines: "nl", "cr" and "cr nl" each end a line and reach the loop as
\* "nl"; the last line has no line break when the text does not end with one.
RECURSIVE SplitLines(_)
SplitLines(s) ==
    IF s = <<>> THEN <<>>
    ELSE LET i == FirstBreak(s) IN
         IF i = 0 THEN <<s>>
         ELSE <<SubSeq(s, 1, i - 1) \o <<NL>>>>
                  \o SplitLines(SubSeq(s, i + BreakLen(s, i), Len(s)))

\* Concatenation of a sequence of texts.
RECURSIVE Join(_)
Join(ls) == IF ls = <<>> THEN <<>> ELSE Head(ls) \o Join(Tail(ls))

----------------------------------------------------------------------------
(* Explored inputs of _update_file. *)

\* Lines a prior file is made of: ordinary lines, the two marker lines,
\* lines that hold a marker after other text, and lines that end with
\* "cr nl" or with "cr".
LineKinds ==
    { <<"x", NL>>, <<"y", NL>>, FILE_MARKER_BEGIN, FILE_MARKER_END,
      <<"x", "B", NL>>, <<"x", "E", NL>>,
      <<"x", CR, NL>>, <<"B", CR, NL>>, <<"y", CR>> }

\* What may follow the last line break of a prior file: nothing, an ordinary
\* line without line break, the end marker's text without line break.
LastKinds == { <<>>, <<"x">>, <<"E">> }

RECURSIVE LineSeqs(_)
LineSeqs(n) ==
    IF n = 0 THEN { <<>> }
    ELSE LET S == LineSeqs(n - 1) IN
         S \cup { <<l>> \o ls : l \in LineKinds, ls \in { t \in S : Len(t) = n - 1 } }

Files == { Join(ls) \o t : ls \in LineSeqs(MaxLines), t \in LastKinds }

\* Replacement bodies: one line, and one line ending with a line break (as
\* the templates of the two callers do).
Bodies == { <<"r">>, <<"r", NL>> }

----------------------------------------------------------------------------
(* _update_file: the loop body and what follows the loop. *)

ScanStart ==
    [add_content |-> FALSE, skip_line |-> FALSE, update_written |-> FALSE,
     out |-> <<>>]

\* LoopBody that forgets to record that the replacement was written.
LoopBodyNotRecorded(st, line, upd) ==
    LET s1 == IF st.add_content
              THEN [st EXCEPT !.out = @ \o FILE_MARKER_BEGIN \o (upd \o <<NL>>),
                              !.add_content = FALSE]
              ELSE st
        s2 == IF Contains(FILE_MARKER_END, line)
              THEN [s1 EXCEPT !.skip_line = FALSE]
              ELSE s1
        s3 == IF Contains(FILE_MARKER_BEGIN, line)
              THEN [s2 EXCEPT !.skip_line = TRUE, !.add_content = TRUE]
              ELSE s2
    IN  IF ~s3.skip_line THEN [s3 EXCEPT !.out = @ \o line] ELSE s3

\* One iteration of `for line in input_file` (lines 104-115).
LoopBody(st, line, upd) ==
    LET s1 == IF st.add_content
              THEN [st EXCEPT !.out = @ \o FILE_MARKER_BEGIN \o (upd \o <<NL>>),
                              !.update_written = TRUE,
                              !.add_content = FALSE]
              ELSE st
        s2 == IF Contains(FILE_MARKER_END, line)
              THEN [s1 EXCEPT !.skip_line = FALSE]
              ELSE s1
        s3 == IF Contains(FILE_MARKER_BEGIN, line)
              THEN [s2 EXCEPT !.skip_line = TRUE, !.add_content = TRUE]
              ELSE s2
    IN  IF ~s3.skip_line THEN [s3 EXCEPT !.out = @ \o line] ELSE s3

\* After the loop (lines 116-119).
AfterLoop(st, upd) ==
    IF ~st.update_written
    THEN [st EXCEPT !.out = @ \o FILE_MARKER_BEGIN \o (upd \o <<NL>>)
                               \o FILE_MARKER_END]
    ELSE st

RECURSIVE ScanAll(_, _, _)
ScanAll(lines, st, upd) ==
    IF lines = <<>> THEN st
    ELSE ScanAll(Tail(lines), LoopBody(st, Head(lines), upd), upd)

\* The content _update_file moves to path, as a function of the prior file.
UpdateFile(exists, data, upd) ==
    AfterLoop(ScanAll(SplitLines(IF exists THEN data ELSE <<>>), ScanStart, upd),
              upd).out

----------------------------------------------------------------------------
(* _update_file, step by step. *)

\* The variables of run() and of _download while neither is being explored.
RunIdle ==
    /\ run_pc = "idle"
    /\ argv = [ddk_workspace |-> "none", kleaf_repo |-> "none",
               prebuilts_dir |-> "none", unknown_option |-> FALSE]
    /\ ddk_workspace = FALSE
    /\ kleaf_repo = FALSE
    /\ prebuilts_dir = FALSE
    /\ dirs = {}
    /\ download_configs = "absent"
    /\ module_bazel = [exists |-> FALSE, data |-> <<>>]
    /\ bazelrc = [exists |-> FALSE, data |-> <<>>]
    /\ tools_bazel = "absent"
    /\ exception = "none"
    /\ exit_status = -1
    /\ error_logged = FALSE
    /\ update_calls = {}
    /\ symlinked = FALSE
    /\ run_init = [module_bazel |-> module_bazel, bazelrc |-> bazelrc,
                   tools_bazel |-> tools_bazel]

DownloadIdle ==
    /\ dl_pc = "idle"
    /\ url_fmt = [none |-> TRUE, s |-> <<>>]
    /\ build_id = [none |-> TRUE, s |-> <<>>]
    /\ build_target = [none |-> TRUE, s |-> <<>>]
    /\ remote_filename = <<>>
    /\ url = [none |-> TRUE, s |-> <<>>]
    /\ dl_error_logged = FALSE
    /\ subprocess_started = FALSE
    /\ dl_raised = FALSE

UpdateIdle ==
    /\ pc = "idle"
    /\ call = 1
    /\ path_exists = FALSE
    /\ path_data = <<>>
    /\ update = <<>>
    /\ input_lines = <<>>
    /\ add_content = FALSE
    /\ skip_line = FALSE
    /\ update_written = FALSE
    /\ tmp_exists = FALSE
    /\ output_file = <<>>
    /\ pre_exists = FALSE
    /\ pre_data = <<>>

Init ==
    /\ RunIdle
    /\ DownloadIdle
    /\ pc = "start"
    /\ call = 1
    /\ path_exists \in BOOLEAN
    /\ path_data \in (IF path_exists THEN Files ELSE { <<>> })
    /\ update \in Bodies
    /\ input_lines = <<>>
    /\ add_content = FALSE
    /\ skip_line = FALSE
    /\ update_written = FALSE
    /\ tmp_exists = FALSE
    /\ output_file = <<>>
    /\ pre_exists = path_exists
    /\ pre_data = path_data

\* Lines 90-100: the flags, and open(path, "r") or open(path, "a+"); the
\* latter creates an empty file at path.
OpenInput ==
    /\ pc = "start"
    /\ pc' = "opened"
    /\ add_content' = FALSE
    /\ skip_line' = FALSE
    /\ update_written' = FALSE
    /\ path_exists' = TRUE
    /\ path_data' = (IF path_exists THEN path_data ELSE <<>>)
    /\ input_lines' = SplitLines(path_data')
    /\ UNCHANGED <<call, update, tmp_exists, output_file, pre_exists, pre_data>>
    /\ UNCHANGED <<runvars, dlvars>>

\* Line 101: tempfile.NamedTemporaryFile(mode="w", delete=False).
CreateTemp ==
    /\ pc = "opened"
    /\ pc' = "scan"
    /\ tmp_exists' = TRUE
    /\ output_file' = <<>>
    /\ UNCHANGED <<call, path_exists, path_data, update, input_lines,
                   add_content, skip_line, update_written, pre_exists, pre_data>>
    /\ UNCHANGED <<runvars, dlvars>>

\* Lines 103-115: one iteration of the loop.
LoopIter ==
    /\ pc = "scan"
    /\ input_lines # <<>>
    /\ LET st == LoopBody([add_content |-> add_content, skip_line |-> skip_line,
                           update_written |-> update_written, out |-> output_file],
                          Head(input_lines), update)
       IN  /\ add_content' = st.add_content
           /\ skip_line' = st.skip_line
           /\ update_written' = st.update_written
           /\ output_file' = st.out
    /\ input_lines' = Tail(input_lines)
    /\ UNCHANGED <<pc, call, path_exists, path_data, update, tmp_exists,
                   pre_exists, pre_data>>
    /\ UNCHANGED <<runvars, dlvars>>

\* Lines 116-119, and the end of the with statement, which closes both files.
LoopEnd ==
    /\ pc = "scan"
    /\ input_lines = <<>>
    /\ pc' = "closed"
    /\ output_file' = AfterLoop([add_content |-> add_content, skip_line |-> skip_line,
                                 update_written |-> update_written,
                                 out |-> output_file], update).out
    /\ UNCHANGED <<call, path_exists, path_data, update, input_lines, add_content,
                   skip_line, update_written, tmp_exists, pre_exists, pre_data>>
    /\ UNCHANGED <<runvars, dlvars>>

\* Line 120, shutil.move when the temporary directory and path are on one
\* filesystem: os.rename.
MoveRename ==
    /\ pc = "closed"
    /\ pc' = "returned"
    /\ path_data' = output_file
    /\ tmp_exists' = FALSE
    /\ UNCHANGED <<call, path_exists, update, input_lines, add_content, skip_line,
                   update_written, output_file, pre_exists, pre_data>>
    /\ UNCHANGED <<runvars, dlvars>>

\* Line 120, shutil.move across filesystems: copy, then unlink.  The copy
\* opens path for writing, which truncates it.
MoveCopyTruncate ==
    /\ pc = "closed"
    /\ pc' = "copying"
    /\ path_data' = <<>>
    /\ UNCHANGED <<call, path_exists, update, input_lines, add_content, skip_line,
                   update_written, tmp_exists, output_file, pre_exists, pre_data>>
    /\ UNCHANGED <<runvars, dlvars>>

MoveCopyWrite ==
    /\ pc = "copying"
    /\ pc' = "copied"
    /\ path_data' = output_file
    /\ UNCHANGED <<call, path_exists, update, input_lines, add_content, skip_line,
                   update_written, tmp_exists, output_file, pre_exists, pre_data>>
    /\ UNCHANGED <<runvars, dlvars>>

MoveUnlink ==
    /\ pc = "copied"
    /\ pc' = "returned"
    /\ tmp_exists' = FALSE
    /\ UNCHANGED <<call, path_exists, path_data, update, input_lines, add_content,
                   skip_line, update_written, output_file, pre_exists, pre_data>>
    /\ UNCHANGED <<runvars, dlvars>>

\* The caller runs the tool again: the same call on the file as it now is.
CallAgain ==
    /\ pc = "returned"
    /\ call = 1
    /\ call' = 2
    /\ pc' = "start"
    /\ pre_exists' = path_exists
    /\ pre_data' = path_data
    /\ UNCHANGED <<path_exists, path_data, update, input_lines, add_content,
                   skip_line, update_written, tmp_exists, output_file>>
    /\ UNCHANGED <<runvars, dlvars>>

Next ==
    \/ OpenInput
    \/ CreateTemp
    \/ LoopIter
    \/ LoopEnd
    \/ MoveRename
    \/ MoveCopyTruncate
    \/ MoveCopyWrite
    \/ MoveUnlink
    \/ CallAgain

Spec == Init /\ [][Next]_vars

----------------------------------------------------------------------------
(* run() and the __main__ block.  A path argument is modelled by whether   *)
(* it was given: a pathlib.Path is always true, None is false.             *)

TOOLS_BAZEL == "tools/bazel"

DEVICE_BAZELRC == "device.bazelrc"

MODULE_BAZEL_FILE == "MODULE.bazel"

\* _KLEAF_DEPENDENCY_TEMPLATE.format(...), as one line.
KleafDependency == <<"kleaf_dep", NL>>

\* "\n" + _LOCAL_PREBUILTS_CONTENT_TEMPLATE.format(...), the template as one
\* line.
LocalPrebuilts == <<NL, "prebuilts", NL>>

\* The text passed by _generate_bazelrc, as one line.
BazelrcContent == <<"registry", NL>>

\* Lines 146-160: module_bazel_content, when download_configs.json is read.
ModuleBazelContent ==
    (IF kleaf_repo THEN KleafDependency ELSE <<>>)
        \o (IF prebuilts_dir THEN LocalPrebuilts ELSE <<>>)

\* Contents of MODULE.bazel and device.bazelrc before a run.
RunFiles ==
    { [exists |-> FALSE, data |-> <<>>],
      [exists |-> TRUE, data |-> <<>>],
      [exists |-> TRUE, data |-> <<"x", NL>>],
      [exists |-> TRUE,
       data |-> FILE_MARKER_BEGIN \o <<"old", CR, NL, "E", CR, NL, "y", CR, NL>>],
      [exists |-> TRUE,
       data |-> <<"x", NL>> \o FILE_MARKER_BEGIN \o <<"old", NL>>
                    \o FILE_MARKER_END \o <<"y", NL>>] }

\* _update_file(file, upd), as one step.
Updated(file, upd) ==
    [exists |-> TRUE, data |-> UpdateFile(file.exists, file.data, upd)]

\* How a path option appears on the command line.
PathArgs == { "none", "absolute", "relative" }

\* Contents of download_configs.json.
ConfigFiles == { "absent", "valid", "not_json", "not_utf8" }

RunInit ==
    /\ UpdateIdle
    /\ DownloadIdle
    /\ run_pc = "parse_args"
    /\ argv \in [ddk_workspace : PathArgs, kleaf_repo : PathArgs,
                 prebuilts_dir : PathArgs, unknown_option : BOOLEAN]
    /\ ddk_workspace = FALSE
    /\ kleaf_repo = FALSE
    /\ prebuilts_dir = FALSE
    /\ dirs \in SUBSET { "ddk_workspace", "prebuilts_dir", "tools" }
    /\ ("ddk_workspace" \in dirs => argv.ddk_workspace # "none")
    /\ ("tools" \in dirs => "ddk_workspace" \in dirs)
    /\ ("prebuilts_dir" \in dirs => argv.prebuilts_dir # "none")
    /\ download_configs \in ConfigFiles
    /\ (download_configs # "absent" => "prebuilts_dir" \in dirs)
    /\ module_bazel \in RunFiles
    /\ bazelrc \in RunFiles
    /\ tools_bazel \in { "absent", "other" }
    /\ (tools_bazel = "other" => "tools" \in dirs)
    /\ ("ddk_workspace" \notin dirs =>
            /\ ~module_bazel.exists
            /\ ~bazelrc.exists
            /\ tools_bazel = "absent")
    /\ exception = "none"
    /\ exit_status = -1
    /\ error_logged = FALSE
    /\ update_calls = {}
    /\ symlinked = FALSE
    /\ run_init = [module_bazel |-> module_bazel, bazelrc |-> bazelrc,
                   tools_bazel |-> tools_bazel]

\* Lines 256-311: parser.parse_args().  abs_path raises ValueError for a
\* path that is not absolute; argparse then, as for an option it does not
\* know, prints the usage and exits with status 2 before run() is reached.
ParseArgs ==
    /\ run_pc = "parse_args"
    /\ IF \/ argv.unknown_option
          \/ "relative" \in { argv.ddk_workspace, argv.kleaf_repo,
                              argv.prebuilts_dir }
       THEN /\ run_pc' = "exited"
            /\ exit_status' = 2
            /\ UNCHANGED <<ddk_workspace, kleaf_repo, prebuilts_dir>>
       ELSE /\ run_pc' = "handle_ddk_workspace"
            /\ ddk_workspace' = (argv.ddk_workspace = "absolute")
            /\ kleaf_repo' = (argv.kleaf_repo = "absolute")
            /\ prebuilts_dir' = (argv.prebuilts_dir = "absolute")
            /\ UNCHANGED exit_status
    /\ UNCHANGED <<argv, dirs, download_configs, module_bazel, bazelrc,
                   tools_bazel, exception, error_logged, update_calls,
                   symlinked, run_init>>
    /\ UNCHANGED <<updvars, dlvars>>

\* Lines 225-228.
HandleDdkWorkspace ==
    /\ run_pc = "handle_ddk_workspace"
    /\ run_pc' = "handle_kleaf_repo"
    /\ dirs' = (IF ~ddk_workspace THEN dirs ELSE dirs \cup { "ddk_workspace" })
    /\ UNCHANGED <<argv, ddk_workspace, kleaf_repo, prebuilts_dir, download_configs,
                   module_bazel, bazelrc, tools_bazel, exception, exit_status,
                   error_logged, update_calls, symlinked, run_init>>
    /\ UNCHANGED <<updvars, dlvars>>

\* Lines 230-233.
HandleKleafRepo ==
    /\ run_pc = "handle_kleaf_repo"
    /\ run_pc' = "handle_prebuilts"
    /\ dirs' = (IF ~kleaf_repo THEN dirs ELSE dirs \cup { "kleaf_repo" })
    /\ UNCHANGED <<argv, ddk_workspace, kleaf_repo, prebuilts_dir, download_configs,
                   module_bazel, bazelrc, tools_bazel, exception, exit_status,
                   error_logged, update_calls, symlinked, run_init>>
    /\ UNCHANGED <<updvars, dlvars>>

\* Lines 236-239.
HandlePrebuilts ==
    /\ run_pc = "handle_prebuilts"
    /\ run_pc' = "symlink_tools_bazel"
    /\ dirs' = (IF ~ddk_workspace \/ ~prebuilts_dir THEN dirs
                ELSE dirs \cup { "prebuilts_dir" })
    /\ UNCHANGED <<argv, ddk_workspace, kleaf_repo, prebuilts_dir, download_configs,
                   module_bazel, bazelrc, tools_bazel, exception, exit_status,
                   error_logged, update_calls, symlinked, run_init>>
    /\ UNCHANGED <<updvars, dlvars>>

\* Line 77, negated: _symlink_tools_bazel goes on.
SymlinkEnabled == ddk_workspace /\ kleaf_repo

\* Lines 76-85.
SymlinkToolsBazel ==
    /\ run_pc = "symlink_tools_bazel"
    /\ run_pc' = "generate_module_bazel"
    /\ IF ~SymlinkEnabled
       THEN UNCHANGED <<dirs, tools_bazel, symlinked>>
       ELSE /\ dirs' = dirs \cup { "tools" }
            /\ tools_bazel' = "kleaf"
            /\ symlinked' = TRUE
    /\ UNCHANGED <<argv, ddk_workspace, kleaf_repo, prebuilts_dir, download_configs,
                   module_bazel, bazelrc, exception, exit_status, error_logged,
                   update_calls, run_init>>
    /\ UNCHANGED <<updvars, dlvars>>

\* _generate_module_bazel with its first test (line 143) dropped.
ModuleBazelAlways == TRUE

\* Line 143, negated: _generate_module_bazel goes on.
ModuleBazelEnabled == ddk_workspace

\* Lines 141-164, with _read_download_configs (lines 135-139): open() of a
\* missing download_configs.json raises FileNotFoundError, json.load raises
\* JSONDecodeError on a file that is not JSON and UnicodeDecodeError on one
\* that is not UTF-8.
GenerateModuleBazel ==
    /\ run_pc = "generate_module_bazel"
    /\ IF ~ModuleBazelEnabled
       THEN /\ run_pc' = "generate_bazelrc"
            /\ UNCHANGED <<module_bazel, update_calls, exception>>
       ELSE IF prebuilts_dir /\ download_configs # "valid"
       THEN /\ run_pc' = "exit"
            /\ exception' = (CASE download_configs = "absent" -> "FileNotFoundError"
                               [] download_configs = "not_json" -> "JSONDecodeError"
                               [] download_configs = "not_utf8" -> "UnicodeDecodeError")
            /\ UNCHANGED <<module_bazel, update_calls>>
       ELSE IF ModuleBazelContent # <<>>
       THEN /\ run_pc' = "generate_bazelrc"
            /\ module_bazel' = Updated(module_bazel, ModuleBazelContent)
            /\ update_calls' = update_calls \cup { MODULE_BAZEL_FILE }
            /\ UNCHANGED exception
       ELSE /\ run_pc' = "generate_bazelrc"
            /\ UNCHANGED <<module_bazel, update_calls, exception>>
    /\ UNCHANGED <<argv, ddk_workspace, kleaf_repo, prebuilts_dir, dirs,
                   download_configs, bazelrc, tools_bazel, exit_status,
                   error_logged, symlinked, run_init>>
    /\ UNCHANGED <<updvars, dlvars>>

\* Line 167, negated: _generate_bazelrc goes on.
BazelrcEnabled == ddk_workspace /\ kleaf_repo

\* Lines 166-181.
GenerateBazelrc ==
    /\ run_pc = "generate_bazelrc"
    /\ run_pc' = "exit"
    /\ IF ~BazelrcEnabled
       THEN UNCHANGED <<bazelrc, update_calls>>
       ELSE /\ bazelrc' = Updated(bazelrc, BazelrcContent)
            /\ update_calls' = update_calls \cup { DEVICE_BAZELRC }
    /\ UNCHANGED <<argv, ddk_workspace, kleaf_repo, prebuilts_dir, dirs,
                   download_configs, module_bazel, tools_bazel, exception,
                   exit_status, error_logged, symlinked, run_init>>
    /\ UNCHANGED <<updvars, dlvars>>

\* Lines 312-316: only KleafProjectSetterError is caught, logged and turned
\* into sys.exit(1); any other exception leaves the interpreter with a
\* traceback and status 1; without exception the status is 0.
MainExit ==
    /\ run_pc = "exit"
    /\ run_pc' = "exited"
    /\ error_logged' = (exception = "KleafProjectSetterError")
    /\ exit_status' = (IF exception = "none" THEN 0 ELSE 1)
    /\ UNCHANGED <<argv, ddk_workspace, kleaf_repo, prebuilts_dir, dirs,
                   download_configs, module_bazel, bazelrc, tools_bazel,
                   exception, update_calls, symlinked, run_init>>
    /\ UNCHANGED <<updvars, dlvars>>

RunNext ==
    \/ ParseArgs
    \/ HandleDdkWorkspace
    \/ HandleKleafRepo
    \/ HandlePrebuilts
    \/ SymlinkToolsBazel
    \/ GenerateModuleBazel
    \/ GenerateBazelrc
    \/ MainExit

SpecRun == RunInit /\ [][RunNext]_vars

\* C7 (as claimed): with ddk_workspace and prebuilts_dir given and
\* download_configs.json absent, the run ends with status 1, the error is
\* reported through logging.error, and MODULE.bazel and device.bazelrc are
\* as they were before the run.
C7_ConfigErrorLogged ==
    (run_pc = "exited" /\ ddk_workspace /\ prebuilts_dir
        /\ download_configs = "absent")
        => /\ exit_status = 1
           /\ error_logged
           /\ module_bazel = run_init.module_bazel
           /\ bazelrc = run_init.bazelrc

\* C10: the symlink is made and device.bazelrc updated only if ddk_workspace
\* and kleaf_repo are both given; MODULE.bazel is updated only if
\* ddk_workspace and one of kleaf_repo, prebuilts_dir are given; without
\* ddk_workspace the three files stay as they were and _update_file is
\* never called.
C10_Gating ==
    /\ (symlinked \/ tools_bazel # run_init.tools_bazel)
            => (ddk_workspace /\ kleaf_repo)
    /\ (DEVICE_BAZELRC \in update_calls \/ bazelrc # run_init.bazelrc)
            => (ddk_workspace /\ kleaf_repo)
    /\ (MODULE_BAZEL_FILE \in update_calls \/ module_bazel # run_init.module_bazel)
            => (ddk_workspace /\ (kleaf_repo \/ prebuilts_dir))
    /\ ~ddk_workspace =>
            /\ update_calls = {}
            /\ ~symlinked
            /\ module_bazel = run_init.module_bazel
            /\ bazelrc = run_init.bazelrc
            /\ tools_bazel = run_init.tools_bazel

\* C10 witness: a run with ddk_workspace and prebuilts_dir but no kleaf_repo
\* has ended, having updated MODULE.bazel and nothing else.
C10_Witness ==
    /\ run_pc = "exited"
    /\ ddk_workspace /\ prebuilts_dir /\ ~kleaf_repo
    /\ update_calls = { MODULE_BAZEL_FILE }
    /\ module_bazel # run_init.module_bazel
    /\ bazelrc = run_init.bazelrc
    /\ ~symlinked

----------------------------------------------------------------------------
(* _download and _get_url.  An optional string is [none, s]; a format      *)
(* string is a sequence of literal characters and replacement fields.      *)

MaxFmtLen == 2

None == [none |-> TRUE, s |-> <<>>]

Str(t) == [none |-> FALSE, s |-> t]

\* Python's truth value of an optional string.
Truthy(o) == ~o.none /\ o.s # <<>>

\* str(o), as str.format renders a field value.
Render(o) == IF o.none THEN <<"None">> ELSE o.s

FAKE_BUILD_NUMBER == Str(<<"__FAKE_BUILD_NUMBER_PLACEHOLDER__">>)

\* The replacement fields _get_url supplies, and one it does not.
KnownFields == { "{build_id}", "{build_target}", "{filename}" }

FmtTokens == KnownFields \cup { "{other}", "u" }

\* The characters urllib.parse.quote never encodes, among those explored.
SafeChars == { "f", "d", "a", "b", "Z", "9", "_", ".", "-", "~" }

\* The percent-encoding of the other explored characters.
PercentEncoded(c) ==
    CASE c = "/" -> <<"%", "2", "F">>
      [] c = " " -> <<"%", "2", "0">>
      [] c = "%" -> <<"%", "2", "5">>
      [] c = "+" -> <<"%", "2", "B">>

\* urllib.parse.quote(name, safe=""): every character outside letters,
\* digits and "_.-~" is percent-encoded.
RECURSIVE Quote(_)
Quote(name) ==
    IF name = <<>> THEN <<>>
    ELSE (IF Head(name) \in SafeChars THEN <<Head(name)>>
          ELSE PercentEncoded(Head(name)))
             \o Quote(Tail(name))

\* fmt.format(build_id=id, build_target=target, filename=name) when every
\* field of fmt is known.
RECURSIVE Format(_, _, _, _)
Format(fmt, id, target, name) ==
    IF fmt = <<>> THEN <<>>
    ELSE (CASE Head(fmt) = "{build_id}" -> Render(id)
            [] Head(fmt) = "{build_target}" -> Render(target)
            [] Head(fmt) = "{filename}" -> name
            [] OTHER -> <<Head(fmt)>>)
         \o Format(Tail(fmt), id, target, name)

\* str.format raises KeyError on a field that is not supplied.
FormatRaises(fmt) == \E i \in 1..Len(fmt) : fmt[i] = "{other}"

\* _get_url that returns the url whether or not build_id was given.
GetUrlUnchecked(fmt, id, target, name) ==
    Str(Format(fmt, id, target, Quote(name)))

\* Lines 183-197, when formatting does not raise.
GetUrl(fmt, id, target, name) ==
    LET u == Format(fmt, id, target, Quote(name))
        url_with_fake_id == Format(fmt, FAKE_BUILD_NUMBER, target, Quote(name))
    IN  IF ~Truthy(id) /\ u # url_with_fake_id THEN None ELSE Str(u)

RECURSIVE FmtSeqs(_)
FmtSeqs(n) ==
    IF n = 0 THEN { <<>> }
    ELSE LET S == FmtSeqs(n - 1) IN
         S \cup { <<t>> \o f : t \in FmtTokens, f \in { g \in S : Len(g) = n - 1 } }

DownloadInit ==
    /\ UpdateIdle
    /\ RunIdle
    /\ dl_pc = "start"
    /\ url_fmt \in { None } \cup { Str(f) : f \in FmtSeqs(MaxFmtLen) }
    /\ build_id \in { None, Str(<<>>), Str(<<"1">>), FAKE_BUILD_NUMBER }
    /\ build_target \in { Str(<<>>), Str(<<"t">>) }
    /\ remote_filename \in { <<>>, <<"f">>, <<"d", "/", "f">>, <<"a", " ", "b">>,
                            <<"a", "%", "b">>, <<"a", "+", "b">>,
                            <<"Z", "9", "_", ".", "-", "~">> }
    /\ url = None
    /\ dl_error_logged = FALSE
    /\ subprocess_started = FALSE
    /\ dl_raised = FALSE

\* Lines 200-205.
DownloadCheckUrlFmt ==
    /\ dl_pc = "start"
    /\ IF ~Truthy(url_fmt)
       THEN /\ dl_error_logged' = TRUE
            /\ dl_pc' = "returned"
       ELSE /\ dl_pc' = "get_url"
            /\ UNCHANGED dl_error_logged
    /\ UNCHANGED <<url_fmt, build_id, build_target, remote_filename, url,
                   subprocess_started, dl_raised>>
    /\ UNCHANGED <<updvars, runvars>>

\* Lines 206-212.
DownloadGetUrl ==
    /\ dl_pc = "get_url"
    /\ IF FormatRaises(url_fmt.s)
       THEN /\ dl_raised' = TRUE
            /\ dl_pc' = "returned"
            /\ UNCHANGED <<url, dl_error_logged>>
       ELSE /\ url' = GetUrl(url_fmt.s, build_id, build_target, remote_filename)
            /\ IF ~Truthy(url')
               THEN /\ dl_error_logged' = TRUE
                    /\ dl_pc' = "returned"
               ELSE /\ dl_pc' = "check_call"
                    /\ UNCHANGED dl_error_logged
            /\ UNCHANGED dl_raised
    /\ UNCHANGED <<url_fmt, build_id, build_target, remote_filename,
                   subprocess_started>>
    /\ UNCHANGED <<updvars, runvars>>

\* Lines 216-223: the helper is started; check_call raises
\* CalledProcessError when it ends with a nonzero status.
DownloadCheckCall ==
    /\ dl_pc = "check_call"
    /\ dl_pc' = "returned"
    /\ subprocess_started' = TRUE
    /\ dl_raised' \in BOOLEAN
    /\ UNCHANGED <<url_fmt, build_id, build_target, remote_filename, url,
                   dl_error_logged>>
    /\ UNCHANGED <<updvars, runvars>>

DownloadNext ==
    \/ DownloadCheckUrlFmt
    \/ DownloadGetUrl
    \/ DownloadCheckCall

SpecDownload == DownloadInit /\ [][DownloadNext]_vars

\* The format string names build_id.
UsesBuildId(fmt) == \E i \in 1..Len(fmt) : fmt[i] = "{build_id}"

\* url_fmt is set and the URL can be formed: build_id is set or the format
\* does not depend on it.
UrlFormable ==
    /\ Truthy(url_fmt)
    /\ (Truthy(build_id) \/ ~UsesBuildId(url_fmt.s))

\* Some part of the format string renders to a non-empty text.
UrlNonEmpty ==
    \E i \in 1..Len(url_fmt.s) :
        \/ url_fmt.s[i] = "u"
        \/ (url_fmt.s[i] = "{build_id}" /\ Render(build_id) # <<>>)
        \/ (url_fmt.s[i] = "{build_target}" /\ Render(build_target) # <<>>)
        \/ (url_fmt.s[i] = "{filename}" /\ remote_filename # <<>>)

\* C9 (as claimed): the helper is started if and only if url_fmt is set and
\* the URL can be formed; otherwise an error is logged, no subprocess is
\* started and the call returns without raising.
C9_DownloadSkipAlways ==
    dl_pc = "returned" =>
        /\ subprocess_started <=> UrlFormable
        /\ ~UrlFormable => (dl_error_logged /\ ~dl_raised)

\* C9 (amended): for a url_fmt whose fields are build_id, build_target and
\* filename only, the helper is started if and only if url_fmt is set, the
\* URL can be formed and the formed URL is not empty; otherwise an error is
\* logged, no subprocess is started and the call returns without raising.
C9_DownloadSkip ==
    (dl_pc = "returned" /\ ~FormatRaises(url_fmt.s)) =>
        /\ subprocess_started <=> (UrlFormable /\ UrlNonEmpty)
        /\ ~(UrlFormable /\ UrlNonEmpty) => (dl_error_logged /\ ~dl_raised)

\* C9 witness: a call with url_fmt naming build_id and no build_id has
\* returned, having logged the error and started nothing.
C9_Witness ==
    /\ dl_pc = "returned"
    /\ Truthy(url_fmt)
    /\ ~FormatRaises(url_fmt.s)
    /\ UsesBuildId(url_fmt.s)
    /\ build_id = None
    /\ dl_error_logged
    /\ ~subprocess_started
    /\ ~dl_raised

----------------------------------------------------------------------------
(* Properties of _update_file. *)

\* The lines of a text as they are stored, each with its own line break
\* ("nl", "cr nl" or "cr").
RECURSIVE RawLines(_)
RawLines(s) ==
    IF s = <<>> THEN <<>>
    ELSE LET i == FirstBreak(s) IN
         IF i = 0 THEN <<s>>
         ELSE LET e == i + BreakLen(s, i) - 1
              IN  <<SubSeq(s, 1, e)>> \o RawLines(SubSeq(s, e + 1, Len(s)))

\* The lines of path when the current call began (none when it was absent),
\* as the loop reads them.
PreLines == SplitLines(pre_data)

\* The same lines, and the lines of path now, as they are stored.
PreRaw == RawLines(pre_data)

OutLines == RawLines(path_data)

HasBegin(line) == Contains(FILE_MARKER_BEGIN, line)

HasEnd(line) == Contains(FILE_MARKER_END, line)

\* No line of ls holds the text of a marker.
MarkerFree(ls) ==
    \A k \in 1..Len(ls) : \A i \in 1..Len(ls[k]) : ls[k][i] \notin { "B", "E" }

\* The section written by one call, as lines.
SectionLines == <<FILE_MARKER_BEGIN>> \o SplitLines(update \o <<NL>>)
                    \o <<FILE_MARKER_END>>

RECURSIVE IsSubseq(_, _)
IsSubseq(a, b) ==
    IF a = <<>> THEN TRUE
    ELSE IF b = <<>> THEN FALSE
    ELSE IF Head(a) = Head(b) THEN IsSubseq(Tail(a), Tail(b))
    ELSE IsSubseq(a, Tail(b))

\* The lines of ls outside every section, a section being a begin-marker
\* line up to the next end-marker line.
RECURSIVE Outside(_)
Outside(ls) ==
    IF ls = <<>> THEN <<>>
    ELSE IF Head(ls) = FILE_MARKER_BEGIN
            /\ \E j \in 2..Len(ls) : ls[j] = FILE_MARKER_END
    THEN LET j == CHOOSE j \in 2..Len(ls) :
                      /\ ls[j] = FILE_MARKER_END
                      /\ \A k \in 2..(j - 1) : ls[k] # FILE_MARKER_END
         IN  Outside(SubSeq(ls, j + 1, Len(ls)))
    ELSE <<Head(ls)>> \o Outside(Tail(ls))

\* C1 (as claimed): a second call with the same replacement leaves the file
\* byte-identical to its content after the first call.
C1_Idempotent ==
    (pc = "returned" /\ call = 2) => path_data = pre_data

\* C2 (as claimed): every line of the prior file outside a begin..end section
\* appears in the output unchanged and in the same relative order.
C2_ContentPreserved ==
    pc = "returned" => IsSubseq(Outside(PreRaw), OutLines)

\* C3 (as claimed): after any call the file holds exactly one begin-marker
\* line and exactly one end-marker line, the begin marker first.
C3_SingleSection ==
    pc = "returned" =>
        LET bs == { i \in 1..Len(OutLines) : OutLines[i] = FILE_MARKER_BEGIN }
            es == { i \in 1..Len(OutLines) : OutLines[i] = FILE_MARKER_END }
        IN  /\ Cardinality(bs) = 1
            /\ Cardinality(es) = 1
            /\ \A b \in bs, e \in es : b < e

\* The prior file is lines P (before i), a begin-marker line at i, body lines
\* B1, an end-marker line at j, lines S, with no marker in P nor in S.
Decomposes(ls, i, j) ==
    /\ 1 <= i /\ i < j /\ j <= Len(ls)
    /\ ls[i] = FILE_MARKER_BEGIN
    /\ ls[j] = FILE_MARKER_END
    /\ MarkerFree(SubSeq(ls, 1, i - 1))
    /\ MarkerFree(SubSeq(ls, j + 1, Len(ls)))

\* P, begin marker, the replacement and a line break, end marker, S.
Replaced(ls, i, j) ==
    Join(SubSeq(ls, 1, i - 1)) \o FILE_MARKER_BEGIN \o (update \o <<NL>>)
        \o FILE_MARKER_END \o Join(SubSeq(ls, j + 1, Len(ls)))

\* C4 (as claimed): for a prior file P, begin marker, B1, end marker, S, with
\* no marker in P, B1 and S, the call yields exactly P, begin marker, the
\* replacement and a line break, end marker, S; B1 may be empty.
C4_Replacement ==
    pc = "returned" =>
        \A i, j \in 1..Len(PreRaw) :
            (/\ Decomposes(PreRaw, i, j)
             /\ MarkerFree(SubSeq(PreRaw, i + 1, j - 1)))
            => path_data = Replaced(PreRaw, i, j)

\* C5 (as claimed): when the prior file holds no begin marker (or is
\* absent), the output is the lines of the prior file followed by the
\* section, each marker on a line of its own.
C5_AppendCreate ==
    (pc = "returned" /\ \A i \in 1..Len(pre_data) : pre_data[i] # "B")
        => OutLines = PreRaw \o SectionLines

\* C6 (as claimed): at every step of a call the target holds either its
\* complete pre-call content (or is absent as before) or the complete output.
C6_Atomic ==
    \/ (path_exists = pre_exists /\ path_data = pre_data)
    \/ (path_exists /\ path_data = UpdateFile(pre_exists, pre_data, update))

----------------------------------------------------------------------------
(* C8: the two-state machine the scan is compared with. *)

RefStart == [state |-> "COPYING", left |-> FALSE, out |-> <<>>]

\* COPYING: a begin-marker line is copied, the replacement emitted once and
\* the machine enters SKIPPING; any other line is copied.  SKIPPING: an
\* end-marker line is copied and the machine returns to COPYING; any other
\* line is discarded.
RefStep(st, line, upd) ==
    IF st.state = "COPYING"
    THEN IF HasBegin(line)
         THEN [state |-> "SKIPPING", left |-> TRUE,
               out |-> st.out \o line \o (upd \o <<NL>>)]
         ELSE [st EXCEPT !.out = @ \o line]
    ELSE IF HasEnd(line)
         THEN [st EXCEPT !.state = "COPYING", !.out = @ \o line]
         ELSE st

RECURSIVE RefScan(_, _, _)
RefScan(lines, st, upd) ==
    IF lines = <<>> THEN st
    ELSE RefScan(Tail(lines), RefStep(st, Head(lines), upd), upd)

\* At the stream end a section is appended only if COPYING was never left.
RefOutput(lines, upd) ==
    LET st == RefScan(lines, RefStart, upd)
    IN  IF ~st.left
        THEN st.out \o FILE_MARKER_BEGIN \o (upd \o <<NL>>) \o FILE_MARKER_END
        ELSE st.out

\* The machine's state before line k of ls.
RefStateBefore(ls, k) == RefScan(SubSeq(ls, 1, k - 1), RefStart, <<>>).state

\* Every line holding the begin marker is exactly the begin-marker line, is
\* followed by a further line, and does not lie between a begin marker and
\* the next end marker.
RegularBegins(ls) ==
    \A k \in 1..Len(ls) :
        HasBegin(ls[k]) =>
            /\ ls[k] = FILE_MARKER_BEGIN
            /\ k < Len(ls)
            /\ RefStateBefore(ls, k) = "COPYING"

\* C8 (as claimed): for every prior file, the file produced equals the output
\* of the two-state machine.
C8_RefinesMachineAlways ==
    pc = "returned" => path_data = RefOutput(PreLines, update)

\* C8 (amended): the file produced equals the output of the two-state machine
\* when every begin marker of the prior file is a whole line, is not the last
\* line and does not follow another begin marker before an end marker.
C8_RefinesMachine ==
    (pc = "returned" /\ RegularBegins(PreLines))
        => path_data = RefOutput(PreLines, update)

\* C8 witness: a call has returned on a file with regular begin markers in
\* which a section was skipped and copying resumed after its end marker.
C8_Witness ==
    /\ pc = "returned"
    /\ RegularBegins(PreLines)
    /\ \E i, j, k \in 1..Len(PreLines) :
          /\ i < j /\ j < k
          /\ PreLines[i] = FILE_MARKER_BEGIN
          /\ HasEnd(PreLines[j])
          /\ RefStateBefore(PreLines, k) = "COPYING"

====
